---- MODULE Spec2Model ----
(***************************************************************************)
(* Habit tracker bot habit.py: the two SQLite tables, the three writing    *)
(* functions add_habit_to_db, complete_habit_in_db and delete_habit_from_db *)
(* run by concurrent callers (one connection and one implicit transaction  *)
(* per call), calculate_streak, the text-generation helpers and the        *)
(* Telegram handlers that call them.                                       *)
(***************************************************************************)
EXTENDS Integers, Sequences, FiniteSets, TLC

\* ------------------------------------------------------------------------
\* Bounds of the model
\* ------------------------------------------------------------------------
\* number of callers racing in SpecAddRace, SpecCompleteRace and
\* SpecCompleteDeleteRace
NumProcs == 3
\* rows ever inserted into the two tables (cap on the AUTOINCREMENT counters)
MaxRows == 3
\* midnights the clock passes during a run
MaxTicks == 1
\* longest list handed to calculate_streak in SpecStreak
MaxDates == 4
\* calendar days the inputs of SpecStreak are drawn from, and days a run of
\* SpecDays lasts
WindowDays == 5
\* confirmation keyboards open at a time in SpecAI and SpecAssistant
MaxKeyboards == 1
\* longest run of completed days a run of SpecAI starts with
MaxRun == 7

Procs == 1..NumProcs
\* the callers of Spec: two handlers at a time, each running any call
Callers == {1, 2}

\* Telegram user ids and habit names the handlers are called with
Users == {101, 202}
\* a text (str) is the sequence of its character codes
Exercise == << 69, 120, 101, 114, 99, 105, 115, 101 >>
Read == << 82, 101, 97, 100 >>
Names == {Exercise, Read}
\* the (owner, name) pairs the calls name: one owner with two habits, and a
\* second owner using one of the same names
Keys == {<<101, Exercise>>, <<101, Read>>, <<202, Exercise>>}

\* ------------------------------------------------------------------------
\* Calendar: datetime.date is (year, month, day); a stored date is the TEXT
\* 'YYYY-MM-DD', modelled as its sequence of character codes.
\* ------------------------------------------------------------------------
IsLeap(y) == (y % 4 = 0) /\ ((y % 100 # 0) \/ (y % 400 = 0))

DaysInMonth(y, m) ==
    IF m = 2 THEN (IF IsLeap(y) THEN 29 ELSE 28)
    ELSE IF m \in {4, 6, 9, 11} THEN 30 ELSE 31

RECURSIVE DaysBeforeMonth(_, _)
DaysBeforeMonth(y, m) ==
    IF m = 1 THEN 0 ELSE DaysBeforeMonth(y, m - 1) + DaysInMonth(y, m - 1)

DaysBeforeYear(y) ==
    LET p == y - 1 IN p * 365 + (p \div 4) - (p \div 100) + (p \div 400)

\* date.toordinal()
ToOrdinal(d) == DaysBeforeYear(d.year) + DaysBeforeMonth(d.year, d.month) + d.day

\* date.fromordinal(n), as datetime._ord2ymd computes it
FromOrdinal(ord) ==
    LET n0   == ord - 1
        n400 == n0 \div 146097
        r400 == n0 % 146097
        n100 == r400 \div 36524
        r100 == r400 % 36524
        n4   == r100 \div 1461
        r4   == r100 % 1461
        n1   == r4 \div 365
        n    == r4 % 365
        y    == n400 * 400 + 1 + n100 * 100 + n4 * 4 + n1
    IN  IF n1 = 4 \/ n100 = 4
        THEN [year |-> y - 1, month |-> 12, day |-> 31]
        ELSE LET leap == (n1 = 3) /\ ((n4 # 24) \/ (n100 = 3))
                 m0   == (n + 50) \div 32
                 pre0 == DaysBeforeMonth(y, m0)
                 m    == IF pre0 > n THEN m0 - 1 ELSE m0
                 pre  == DaysBeforeMonth(y, m)
             IN  [year |-> y, month |-> m, day |-> n - pre + 1]

\* date - timedelta(days=k)
MinusDays(d, k) == FromOrdinal(ToOrdinal(d) - k)
PlusDays(d, k) == FromOrdinal(ToOrdinal(d) + k)

\* date < date: Python compares (year, month, day)
DateLess(a, b) ==
    \/ a.year < b.year
    \/ a.year = b.year /\ a.month < b.month
    \/ a.year = b.year /\ a.month = b.month /\ a.day < b.day

Digit(k) == 48 + k
Dash == 45

\* date.strftime('%Y-%m-%d')
Strftime(d) ==
    << Digit(d.year \div 1000), Digit((d.year \div 100) % 10),
       Digit((d.year \div 10) % 10), Digit(d.year % 10), Dash,
       Digit(d.month \div 10), Digit(d.month % 10), Dash,
       Digit(d.day \div 10), Digit(d.day % 10) >>

\* datetime.strptime(s, '%Y-%m-%d').date()
Strptime(s) ==
    [year  |-> (s[1] - 48) * 1000 + (s[2] - 48) * 100 + (s[3] - 48) * 10 + (s[4] - 48),
     month |-> (s[6] - 48) * 10 + (s[7] - 48),
     day   |-> (s[9] - 48) * 10 + (s[10] - 48)]

\* the first day of a run: the clock then passes 29 February and 1 March
FirstDay == [year |-> 2024, month |-> 2, day |-> 27]


\* ------------------------------------------------------------------------
\* State
\* ------------------------------------------------------------------------
VARIABLES
    habits,         \* committed rows of table habits
    completions,    \* committed rows of table completions
    seq,            \* committed sqlite_sequence (AUTOINCREMENT counters)
    lock,           \* the caller whose connection holds the write lock, 0 if none
    txHabits,       \* table habits as the open write transaction sees it
    txCompletions,  \* table completions as the open write transaction sees it
    txSeq,          \* sqlite_sequence as the open write transaction sees it
    pc,             \* the statement each caller executes next
    call,           \* the function each caller is in, and its arguments
    habit_id,       \* complete_habit_in_db: result[0] of the SELECT
    success,        \* add_habit_to_db / complete_habit_in_db: the flag returned
    message,        \* complete_habit_in_db: the reason returned
    deleted,        \* delete_habit_from_db: c.rowcount > 0
    today,          \* datetime.now().date()
    dates,          \* calculate_streak: its argument
    streak,         \* calculate_streak: its result, -1 before it has run
    handler,        \* the handler each caller runs, "none" outside a handler
    reply,          \* the message the bot sent last, NoReply while a handler
                    \* has not answered yet
    confirmations,  \* the confirmation keyboards shown and not yet answered
    generated       \* what model.generate_content did, call by call, for the
                    \* handler that answered last

vars == << habits, completions, seq, lock, txHabits, txCompletions, txSeq, pc,
           call, habit_id, success, message, deleted, today, dates, streak,
           handler, reply, confirmations, generated >>

db == << habits, completions, seq >>
tx == << txHabits, txCompletions, txSeq >>
locals == << habit_id, success, message, deleted >>
streakVars == << dates, streak >>
chatVars == << handler, reply, confirmations, generated >>

NoCall == [op |-> "none", user_id |-> 0, habit_name |-> << >>, date |-> << >>]

\* the text part of a message: where it comes from ("ai" or the name of a
\* canned message), the {streak} formatted into a canned message, and the
\* characters of a generated text
NoText == [source |-> "none", streak |-> 0, body |-> << >>]
\* a message of the bot: what it says (kind), to whom, on which day, and the
\* values formatted into it
NoReply == [kind |-> "none", user_id |-> 0, day |-> << >>, habit_name |-> << >>,
            rows |-> {}, streak |-> 0, total |-> 0, count |-> 0, text |-> NoText]

\* ------------------------------------------------------------------------
\* Schema (init_db)
\* ------------------------------------------------------------------------
\* PRAGMA foreign_keys: SQLite leaves it OFF on every new connection and no
\* connection of the program turns it on
foreign_keys == FALSE

\* Faulty variant: table habits declared without UNIQUE(user_id, habit_name)
HabitsWithoutUnique(rows, user_id, habit_name) == FALSE

\* UNIQUE(user_id, habit_name) rejects the row
HabitsUniqueFails(rows, user_id, habit_name) ==
    \E h \in rows : h.user_id = user_id /\ h.habit_name = habit_name

\* Faulty variant: table completions declared without UNIQUE(habit_id,
\* completion_date)
CompletionsWithoutUnique(rows, hid, completion_date) == FALSE

\* UNIQUE(habit_id, completion_date) rejects the row
CompletionsUniqueFails(rows, hid, completion_date) ==
    \E c \in rows : c.habit_id = hid /\ c.completion_date = completion_date

\* Faulty variant: INTEGER PRIMARY KEY without AUTOINCREMENT, the new id is
\* one more than the largest id in the table
RowidAfterLargest(rows, last) ==
    IF rows = {} THEN 1
    ELSE (CHOOSE r \in rows : \A o \in rows : o.id <= r.id).id + 1

\* INTEGER PRIMARY KEY AUTOINCREMENT: the new id is one more than the largest
\* id the table ever held (sqlite_sequence)
AutoIncrement(rows, last) == last + 1

\* FOREIGN KEY (habit_id) REFERENCES habits (id) rejects the row
ForeignKeyFails(hrows, hid) ==
    foreign_keys /\ ~ \E h \in hrows : h.id = hid

\* Faulty variant: the DELETE empties table completions
CascadeAll(crows, gone) == crows

\* ON DELETE CASCADE: the completions that go with the habit rows `gone`
Cascade(crows, gone) ==
    IF foreign_keys
    THEN {c \in crows : \E h \in gone : h.id = c.habit_id}
    ELSE {}

\* no handler runs, nothing has been sent
InitChat ==
    /\ handler = [p \in Procs |-> "none"]
    /\ reply = NoReply
    /\ confirmations = {}
    /\ generated = << >>

Init ==
    /\ habits = {}
    /\ completions = {}
    /\ seq = [habits |-> 0, completions |-> 0]
    /\ lock = 0
    /\ txHabits = {}
    /\ txCompletions = {}
    /\ txSeq = [habits |-> 0, completions |-> 0]
    /\ pc = [p \in Procs |-> "idle"]
    /\ call = [p \in Procs |-> NoCall]
    /\ habit_id = [p \in Procs |-> 0]
    /\ success = [p \in Procs |-> FALSE]
    /\ message = [p \in Procs |-> ""]
    /\ deleted = [p \in Procs |-> FALSE]
    /\ today = FirstDay
    /\ dates = << >>
    /\ streak = -1
    /\ InitChat

\* ------------------------------------------------------------------------
\* Transactions: the sqlite3 module opens one before INSERT / DELETE; the
\* statement takes the write lock and waits (busy handler) while another
\* connection holds it.
\* ------------------------------------------------------------------------
\* conn.commit()
CommitTx(p) ==
    /\ habits' = txHabits
    /\ completions' = txCompletions
    /\ seq' = txSeq
    /\ lock' = IF lock = p THEN 0 ELSE lock
    /\ UNCHANGED tx

\* conn.close(): an open transaction is rolled back
CloseConn(p) ==
    IF lock = p
    THEN /\ lock' = 0
         /\ txHabits' = habits
         /\ txCompletions' = completions
         /\ txSeq' = seq
         /\ UNCHANGED db
    ELSE UNCHANGED << db, tx, lock >>

\* the function has returned to the handler that called it; the handler ends
\* and the caller takes the next update
Return(p) ==
    /\ pc[p] = "ret"
    /\ pc' = [pc EXCEPT ![p] = "idle"]
    /\ call' = [call EXCEPT ![p] = NoCall]
    /\ habit_id' = [habit_id EXCEPT ![p] = 0]
    /\ success' = [success EXCEPT ![p] = FALSE]
    /\ message' = [message EXCEPT ![p] = ""]
    /\ deleted' = [deleted EXCEPT ![p] = FALSE]
    /\ UNCHANGED << db, tx, lock, today, streakVars >>

\* the handler that made the call replies to the user and ends (what it says
\* is not recorded)
Reply(p) == Return(p) /\ UNCHANGED chatVars

\* rows inserted so far, and rows on their way (callers after the same row
\* count once): under Spec and the races a call that may insert a row starts
\* only while fewer than MaxRows are accounted for
Inserting == {q \in Procs : pc[q] \in {"add_insert", "add_commit", "comp_select",
                                         "comp_insert", "comp_commit"}}
RowsLeft ==
    seq.habits + seq.completions + Cardinality({call[q] : q \in Inserting}) < MaxRows

\* ------------------------------------------------------------------------
\* add_habit_to_db(user_id, habit_name)
\* ------------------------------------------------------------------------
CallAdd(p, u, n) ==
    /\ pc[p] = "idle"
    /\ call' = [call EXCEPT ![p] = [op |-> "add", user_id |-> u,
                                    habit_name |-> n, date |-> << >>]]
    /\ pc' = [pc EXCEPT ![p] = "add_insert"]
    /\ UNCHANGED << db, tx, lock, locals, today, streakVars >>

AddInsert(p) ==
    /\ pc[p] = "add_insert"
    /\ lock = 0
    /\ lock' = p
    /\ IF HabitsUniqueFails(txHabits, call[p].user_id, call[p].habit_name)
       THEN \* sqlite3.IntegrityError
            /\ success' = [success EXCEPT ![p] = FALSE]
            /\ pc' = [pc EXCEPT ![p] = "add_close"]
            /\ UNCHANGED tx
       ELSE /\ txHabits' = txHabits \cup
                   {[id |-> AutoIncrement(txHabits, txSeq.habits),
                     user_id |-> call[p].user_id,
                     habit_name |-> call[p].habit_name,
                     created_date |-> Strftime(today)]}
            /\ txSeq' = [txSeq EXCEPT !.habits = @ + 1]
            /\ pc' = [pc EXCEPT ![p] = "add_commit"]
            /\ UNCHANGED << txCompletions, success >>
    /\ UNCHANGED << db, call, habit_id, message, deleted, today, streakVars, chatVars >>

\* conn.commit(); success = True; conn.close()
AddCommit(p) ==
    /\ pc[p] = "add_commit"
    /\ CommitTx(p)
    /\ success' = [success EXCEPT ![p] = TRUE]
    /\ pc' = [pc EXCEPT ![p] = "ret"]
    /\ UNCHANGED << call, habit_id, message, deleted, today, streakVars, chatVars >>

\* except sqlite3.IntegrityError: success = False; conn.close() rolls back
AddClose(p) ==
    /\ pc[p] = "add_close"
    /\ CloseConn(p)
    /\ pc' = [pc EXCEPT ![p] = "ret"]
    /\ UNCHANGED << call, locals, today, streakVars, chatVars >>

\* ------------------------------------------------------------------------
\* complete_habit_in_db(user_id, habit_name, date); button_callback passes
\* today's date
\* ------------------------------------------------------------------------
CallComplete(p, u, n) ==
    /\ pc[p] = "idle"
    /\ call' = [call EXCEPT ![p] = [op |-> "complete", user_id |-> u,
                                    habit_name |-> n, date |-> Strftime(today)]]
    /\ pc' = [pc EXCEPT ![p] = "comp_select"]
    /\ UNCHANGED << db, tx, lock, locals, today, streakVars >>

\* Faulty variant: SELECT id FROM habits WHERE habit_name = ?
SelectHabitOfAnyOwner(user_id, habit_name) ==
    {h \in habits : h.habit_name = habit_name}

\* SELECT id FROM habits WHERE user_id = ? AND habit_name = ?  (committed rows)
SelectHabit(user_id, habit_name) ==
    {h \in habits : h.user_id = user_id /\ h.habit_name = habit_name}

CompleteSelect(p) ==
    /\ pc[p] = "comp_select"
    /\ LET result == SelectHabit(call[p].user_id, call[p].habit_name) IN
       IF result = {}
       THEN /\ success' = [success EXCEPT ![p] = FALSE]
            /\ message' = [message EXCEPT ![p] = "Habit not found"]
            /\ pc' = [pc EXCEPT ![p] = "ret"]
            /\ UNCHANGED habit_id
       ELSE /\ \E h \in result : habit_id' = [habit_id EXCEPT ![p] = h.id]
            /\ pc' = [pc EXCEPT ![p] = "comp_insert"]
            /\ UNCHANGED << success, message >>
    /\ UNCHANGED << db, tx, lock, call, deleted, today, streakVars, chatVars >>

CompleteInsert(p) ==
    /\ pc[p] = "comp_insert"
    /\ lock = 0
    /\ lock' = p
    /\ IF \/ CompletionsUniqueFails(txCompletions, habit_id[p], call[p].date)
          \/ ForeignKeyFails(txHabits, habit_id[p])
       THEN \* sqlite3.IntegrityError
            /\ success' = [success EXCEPT ![p] = FALSE]
            /\ message' = [message EXCEPT ![p] = "Already completed"]
            /\ pc' = [pc EXCEPT ![p] = "comp_close"]
            /\ UNCHANGED tx
       ELSE /\ txCompletions' = txCompletions \cup
                   {[id |-> AutoIncrement(txCompletions, txSeq.completions),
                     habit_id |-> habit_id[p],
                     completion_date |-> call[p].date]}
            /\ txSeq' = [txSeq EXCEPT !.completions = @ + 1]
            /\ pc' = [pc EXCEPT ![p] = "comp_commit"]
            /\ UNCHANGED << txHabits, success, message >>
    /\ UNCHANGED << db, call, habit_id, deleted, today, streakVars, chatVars >>

\* conn.commit(); conn.close(); return True, "Completed"
CompleteCommit(p) ==
    /\ pc[p] = "comp_commit"
    /\ CommitTx(p)
    /\ success' = [success EXCEPT ![p] = TRUE]
    /\ message' = [message EXCEPT ![p] = "Completed"]
    /\ pc' = [pc EXCEPT ![p] = "ret"]
    /\ UNCHANGED << call, habit_id, deleted, today, streakVars, chatVars >>

\* except sqlite3.IntegrityError: conn.close() rolls back
CompleteClose(p) ==
    /\ pc[p] = "comp_close"
    /\ CloseConn(p)
    /\ pc' = [pc EXCEPT ![p] = "ret"]
    /\ UNCHANGED << call, locals, today, streakVars, chatVars >>

\* ------------------------------------------------------------------------
\* delete_habit_from_db(user_id, habit_name)
\* ------------------------------------------------------------------------
CallDelete(p, u, n) ==
    /\ pc[p] = "idle"
    /\ call' = [call EXCEPT ![p] = [op |-> "delete", user_id |-> u,
                                    habit_name |-> n, date |-> << >>]]
    /\ pc' = [pc EXCEPT ![p] = "del_delete"]
    /\ UNCHANGED << db, tx, lock, locals, today, streakVars >>

\* DELETE FROM habits WHERE user_id = ? AND habit_name = ?
DeleteExecute(p) ==
    /\ pc[p] = "del_delete"
    /\ lock = 0
    /\ lock' = p
    /\ LET gone == {h \in txHabits : h.user_id = call[p].user_id
                                     /\ h.habit_name = call[p].habit_name}
       IN  /\ txHabits' = txHabits \ gone
           /\ txCompletions' = txCompletions \ Cascade(txCompletions, gone)
           /\ deleted' = [deleted EXCEPT ![p] = Cardinality(gone) > 0]
    /\ pc' = [pc EXCEPT ![p] = "del_commit"]
    /\ UNCHANGED << db, txSeq, call, habit_id, success, message, today, streakVars, chatVars >>

\* conn.commit(); conn.close(); return deleted
DeleteCommit(p) ==
    /\ pc[p] = "del_commit"
    /\ CommitTx(p)
    /\ pc' = [pc EXCEPT ![p] = "ret"]
    /\ UNCHANGED << call, locals, today, streakVars, chatVars >>

\* midnight: datetime.now().date() moves to the next day, on the first
\* `limit` days of a run
Midnight(limit) ==
    /\ ToOrdinal(today) - ToOrdinal(FirstDay) < limit
    /\ today' = PlusDays(today, 1)
    /\ UNCHANGED << db, tx, lock, pc, call, locals, streakVars, chatVars >>

Tick == Midnight(MaxTicks)

Next ==
    \/ \E p \in Callers, k \in Keys :
          RowsLeft /\ CallAdd(p, k[1], k[2]) /\ UNCHANGED chatVars
    \/ \E p \in Callers : AddInsert(p)
    \/ \E p \in Callers : AddCommit(p)
    \/ \E p \in Callers : AddClose(p)
    \/ \E p \in Callers, k \in Keys :
          RowsLeft /\ CallComplete(p, k[1], k[2]) /\ UNCHANGED chatVars
    \/ \E p \in Callers : CompleteSelect(p)
    \/ \E p \in Callers : CompleteInsert(p)
    \/ \E p \in Callers : CompleteCommit(p)
    \/ \E p \in Callers : CompleteClose(p)
    \/ \E p \in Callers, k \in Keys :
          CallDelete(p, k[1], k[2]) /\ UNCHANGED chatVars
    \/ \E p \in Callers : DeleteExecute(p)
    \/ \E p \in Callers : DeleteCommit(p)
    \/ \E p \in Callers : Reply(p)
    \/ Tick

Spec == Init /\ [][Next]_vars

\* ------------------------------------------------------------------------
\* calculate_streak(dates)
\* ------------------------------------------------------------------------
RECURSIVE InsertDesc(_, _)
InsertDesc(d, s) ==
    IF s = << >> THEN << d >>
    ELSE IF DateLess(Head(s), d) THEN << d >> \o s
    ELSE << Head(s) >> \o InsertDesc(d, Tail(s))

\* sorted(..., reverse=True)
RECURSIVE SortedDesc(_)
SortedDesc(s) ==
    IF s = << >> THEN << >> ELSE InsertDesc(Head(s), SortedDesc(Tail(s)))

\* Faulty variant: the loop never breaks, every date counts
StreakLoopWithoutBreak(sorted_dates, i, current_date, n) ==
    n + Len(sorted_dates) - i + 1

\* for date in sorted_dates: count while date == current_date, else break
RECURSIVE StreakLoop(_, _, _, _)
StreakLoop(sorted_dates, i, current_date, n) ==
    IF i > Len(sorted_dates) THEN n
    ELSE IF sorted_dates[i] = current_date
         THEN StreakLoop(sorted_dates, i + 1, MinusDays(current_date, 1), n + 1)
         ELSE n

\* Faulty variant: no day of grace, the newest date has to be today
calculate_streak_strict(ds) ==
    IF ds = << >> THEN 0
    ELSE LET sorted_dates == SortedDesc([i \in 1..Len(ds) |-> Strptime(ds[i])])
         IN  IF sorted_dates[1] # today THEN 0
             ELSE StreakLoop(sorted_dates, 1, today, 0)

calculate_streak(ds) ==
    IF ds = << >> THEN 0
    ELSE LET sorted_dates == SortedDesc([i \in 1..Len(ds) |-> Strptime(ds[i])])
             yesterday    == MinusDays(today, 1)
         IN  IF sorted_dates[1] \notin {today, yesterday} THEN 0
             ELSE StreakLoop(sorted_dates, 1,
                             IF sorted_dates[1] = today THEN today ELSE yesterday, 0)

\* the calendar days and the lists of stored dates calculate_streak is tried on
Window == {PlusDays(FirstDay, k) : k \in 0..(WindowDays - 1)}
WindowTexts == {Strftime(d) : d \in Window}
DateLists == UNION {[1..n -> WindowTexts] : n \in 0..MaxDates}

InitStreak ==
    /\ habits = {}
    /\ completions = {}
    /\ seq = [habits |-> 0, completions |-> 0]
    /\ lock = 0
    /\ txHabits = {}
    /\ txCompletions = {}
    /\ txSeq = [habits |-> 0, completions |-> 0]
    /\ pc = [p \in Procs |-> "idle"]
    /\ call = [p \in Procs |-> NoCall]
    /\ habit_id = [p \in Procs |-> 0]
    /\ success = [p \in Procs |-> FALSE]
    /\ message = [p \in Procs |-> ""]
    /\ deleted = [p \in Procs |-> FALSE]
    /\ today \in Window
    /\ dates \in DateLists
    /\ streak = -1
    /\ InitChat

StreakCall ==
    /\ streak = -1
    /\ streak' = calculate_streak(dates)
    /\ UNCHANGED << db, tx, lock, pc, call, locals, today, dates, chatVars >>

NextStreak == StreakCall

SpecStreak == InitStreak /\ [][NextStreak]_vars

\* ------------------------------------------------------------------------
\* Races: every caller makes the same call once, on a store in which the call
\* can succeed, and keeps the value returned to it
\* ------------------------------------------------------------------------
\* no caller has so far named another (owner, name)
SameKeyAsOthers(k) ==
    \A q \in Procs : call[q].op = "none"
                     \/ (call[q].user_id = k[1] /\ call[q].habit_name = k[2])

NextAddRace ==
    \/ \E p \in Procs, k \in Keys :
          /\ SameKeyAsOthers(k) /\ RowsLeft
          /\ CallAdd(p, k[1], k[2]) /\ UNCHANGED chatVars
    \/ \E p \in Procs : AddInsert(p)
    \/ \E p \in Procs : AddCommit(p)
    \/ \E p \in Procs : AddClose(p)
    \/ Tick

SpecAddRace == Init /\ [][NextAddRace]_vars

\* the store after one add on the first day, on that day or a later one
InitCompleteRace ==
    /\ \E k \in Keys :
         habits = {[id |-> 1, user_id |-> k[1], habit_name |-> k[2],
                    created_date |-> Strftime(FirstDay)]}
    /\ completions = {}
    /\ seq = [habits |-> 1, completions |-> 0]
    /\ lock = 0
    /\ txHabits = habits
    /\ txCompletions = {}
    /\ txSeq = seq
    /\ pc = [p \in Procs |-> "idle"]
    /\ call = [p \in Procs |-> NoCall]
    /\ habit_id = [p \in Procs |-> 0]
    /\ success = [p \in Procs |-> FALSE]
    /\ message = [p \in Procs |-> ""]
    /\ deleted = [p \in Procs |-> FALSE]
    /\ \E t \in 0..MaxTicks : today = PlusDays(FirstDay, t)
    /\ dates = << >>
    /\ streak = -1
    /\ InitChat

NextCompleteRace ==
    \/ \E p \in Procs, h \in habits :
          RowsLeft /\ CallComplete(p, h.user_id, h.habit_name) /\ UNCHANGED chatVars
    \/ \E p \in Procs : CompleteSelect(p)
    \/ \E p \in Procs : CompleteInsert(p)
    \/ \E p \in Procs : CompleteCommit(p)
    \/ \E p \in Procs : CompleteClose(p)

SpecCompleteRace == InitCompleteRace /\ [][NextCompleteRace]_vars

\* the key every caller of the complete/delete race uses: that of the stored
\* habit, or of the calls already made once the habit is gone
RaceKey(k) ==
    /\ SameKeyAsOthers(k)
    /\ \A h \in habits : h.user_id = k[1] /\ h.habit_name = k[2]

\* callers completing and deleting the one stored habit at the same time
NextCompleteDeleteRace ==
    \/ \E p \in Procs, k \in Keys :
          /\ RaceKey(k) /\ RowsLeft
          /\ CallComplete(p, k[1], k[2]) /\ UNCHANGED chatVars
    \/ \E p \in Procs, k \in Keys :
          RaceKey(k) /\ CallDelete(p, k[1], k[2]) /\ UNCHANGED chatVars
    \/ \E p \in Procs : CompleteSelect(p)
    \/ \E p \in Procs : CompleteInsert(p)
    \/ \E p \in Procs : CompleteCommit(p)
    \/ \E p \in Procs : CompleteClose(p)
    \/ \E p \in Procs : DeleteExecute(p)
    \/ \E p \in Procs : DeleteCommit(p)

SpecCompleteDeleteRace == InitCompleteRace /\ [][NextCompleteDeleteRace]_vars

\* ------------------------------------------------------------------------
\* Texts: str.strip, str.join, str.lower, `in`, str.split(":", 1)[1]
\* ------------------------------------------------------------------------
Space == 32
DoubleQuote == 34
SingleQuote == 39
Colon == 58
\* the characters str.strip() removes
Whitespace == {9, 10, Space}

RECURSIVE LStrip(_, _)
LStrip(s, chars) ==
    IF s # << >> /\ Head(s) \in chars THEN LStrip(Tail(s), chars) ELSE s

RECURSIVE RStrip(_, _)
RStrip(s, chars) ==
    IF s # << >> /\ s[Len(s)] \in chars
    THEN RStrip(SubSeq(s, 1, Len(s) - 1), chars)
    ELSE s

\* s.strip(chars)
Strip(s, chars) == RStrip(LStrip(s, chars), chars)

\* ' '.join(args)
RECURSIVE Join(_)
Join(args) ==
    IF args = << >> THEN << >>
    ELSE IF Len(args) = 1 THEN args[1]
    ELSE args[1] \o << Space >> \o Join(Tail(args))

\* s.lower() on the letters A-Z
Lower(s) == [i \in 1..Len(s) |-> IF s[i] \in 65..90 THEN s[i] + 32 ELSE s[i]]

\* sub in s
Contains(s, sub) ==
    \E i \in 1..(Len(s) - Len(sub) + 1) : SubSeq(s, i, i + Len(sub) - 1) = sub

\* s.startswith(prefix)
StartsWith(s, prefix) ==
    Len(s) >= Len(prefix) /\ SubSeq(s, 1, Len(prefix)) = prefix

\* s.split(":", 1)[1] of a text that holds a colon
RECURSIVE AfterColon(_)
AfterColon(s) == IF Head(s) = Colon THEN Tail(s) ELSE AfterColon(Tail(s))

\* a < b for str: the first differing character decides, a proper prefix is
\* the smaller
RECURSIVE TextLess(_, _)
TextLess(a, b) ==
    IF b = << >> THEN FALSE
    ELSE IF a = << >> THEN TRUE
    ELSE IF Head(a) # Head(b) THEN Head(a) < Head(b)
    ELSE TextLess(Tail(a), Tail(b))

\* ------------------------------------------------------------------------
\* Reading the store: get_user_habits, get_habit_completions
\* ------------------------------------------------------------------------
\* SELECT id, habit_name, created_date FROM habits WHERE user_id = ?  (the
\* order of the rows is not specified and no caller depends on it)
get_user_habits(user_id) == {h \in habits : h.user_id = user_id}

\* the rows of a set of completions, latest completion_date first
RECURSIVE OrderByDateDesc(_)
OrderByDateDesc(rows) ==
    IF rows = {} THEN << >>
    ELSE LET top == CHOOSE c \in rows :
                      \A o \in rows : ~ TextLess(c.completion_date, o.completion_date)
         IN  << top.completion_date >> \o OrderByDateDesc(rows \ {top})

\* SELECT completion_date FROM completions WHERE habit_id = ?
\* ORDER BY completion_date DESC
get_habit_completions(hid) ==
    OrderByDateDesc({c \in completions : c.habit_id = hid})

\* ------------------------------------------------------------------------
\* Text generation: model.generate_content either raises (error, timeout,
\* blocked response) or returns a response with a text
\* ------------------------------------------------------------------------
\* what the generated texts are drawn from: a quoted name, a name in single
\* quotes with blanks around it, nothing but quotes, a blank, a quoted blank
AITexts ==
    { << DoubleQuote >> \o Read \o << DoubleQuote >>,
      << Space, SingleQuote >> \o Exercise \o << SingleQuote, Space >>,
      << DoubleQuote, DoubleQuote >>,
      << Space >>,
      << DoubleQuote, Space, DoubleQuote >> }
AIOutcomes ==
    {[raises |-> TRUE, text |-> << >>]} \cup
    {[raises |-> FALSE, text |-> t] : t \in AITexts}

\* Python's None, and a value that is not None
None == << >>
Some(x) == << x >>
\* `if x:` for x a str or None
Truthy(x) == x # None /\ x[1] # << >>

\* extract_habit_from_text(text): the prompt embeds the text, the result
\* depends on the response alone
extract_habit_from_text(text, ai) ==
    IF ai.raises THEN None
    ELSE LET habit_name ==
               Strip(Strip(Strip(ai.text, Whitespace), {DoubleQuote}), {SingleQuote})
         IN  IF habit_name # << >> THEN Some(habit_name) ELSE None

\* Faulty variant: one fallback message whatever the streak
generate_motivation_flat(habit_name, n, total_completions, ai) ==
    IF ~ ai.raises
    THEN [source |-> "ai", streak |-> 0, body |-> Strip(ai.text, Whitespace)]
    ELSE [source |-> "Great job!", streak |-> 0, body |-> << >>]

\* generate_motivation(habit_name, streak, total_completions)
generate_motivation(habit_name, n, total_completions, ai) ==
    IF ~ ai.raises
    THEN [source |-> "ai", streak |-> 0, body |-> Strip(ai.text, Whitespace)]
    ELSE IF n >= 7 THEN [source |-> "Incredible!", streak |-> n, body |-> << >>]
    ELSE IF n >= 3 THEN [source |-> "Amazing work!", streak |-> n, body |-> << >>]
    ELSE [source |-> "Great job!", streak |-> 0, body |-> << >>]

\* ai_chat_assistant(user_message, user_habits_data): the summary of the
\* habits goes into the prompt only
ai_chat_assistant(user_message, user_habits_data, ai) ==
    IF ~ ai.raises
    THEN [source |-> "ai", streak |-> 0, body |-> Strip(ai.text, Whitespace)]
    ELSE [source |-> "I'm having trouble", streak |-> 0, body |-> << >>]

\* ------------------------------------------------------------------------
\* Handlers: what the bot does with one update. The bot takes one update at
\* a time; a handler that calls into the store runs that call's steps and
\* answers when the call has returned.
\* ------------------------------------------------------------------------
\* a message sent to user u now
Message(kind, u) ==
    [NoReply EXCEPT !.kind = kind, !.user_id = u, !.day = Strftime(today)]

\* context.args, the words after the command: none, or a name of one word
ArgLists == {<< >>, << Read >>, << Exercise >>}

\* Faulty variant: add_habit without the check of context.args
ArgsNeverMissing(args) == FALSE

\* `if not context.args`
ArgsMissing(args) == args = << >>

\* add_habit: /addhabit <name>
AddHabitCommand(p, u, args) ==
    /\ pc[p] = "idle"
    /\ IF ArgsMissing(args)
       THEN /\ reply' = Message("Please specify a habit name", u)
            /\ generated' = << >>
            /\ UNCHANGED << db, tx, lock, pc, call, locals, today, streakVars,
                            handler, confirmations >>
       ELSE /\ CallAdd(p, u, Strip(Join(args), Whitespace))
            /\ handler' = [handler EXCEPT ![p] = "add_habit"]
            /\ reply' = NoReply
            /\ generated' = << >>
            /\ UNCHANGED confirmations

\* add_habit, after add_habit_to_db has returned
AddHabitReply(p) ==
    /\ handler[p] = "add_habit"
    /\ Return(p)
    /\ reply' = [Message(IF success[p] THEN "added successfully"
                                       ELSE "You already have a habit called",
                         call[p].user_id)
                   EXCEPT !.habit_name = call[p].habit_name]
    /\ handler' = [handler EXCEPT ![p] = "none"]
    /\ UNCHANGED << confirmations, generated >>

\* one block of the /myhabits message
MyHabitsRow(h) ==
    LET ds == get_habit_completions(h.id) IN
    [habit_name |-> h.habit_name, streak |-> calculate_streak(ds),
     total |-> Len(ds),
     completed_today |-> \E i \in 1..Len(ds) : ds[i] = Strftime(today)]

\* my_habits: /myhabits
MyHabits(p, u) ==
    /\ pc[p] = "idle"
    /\ LET hs == get_user_habits(u) IN
       reply' = IF hs = {}
                THEN Message("You don't have any habits yet", u)
                ELSE [Message("Your Habits", u)
                        EXCEPT !.rows = {MyHabitsRow(h) : h \in hs}]
    /\ generated' = << >>
    /\ UNCHANGED << db, tx, lock, pc, call, locals, today, streakVars,
                    handler, confirmations >>

\* button_callback, "complete:<name>": the button of a /complete keyboard
PressComplete(p, u, n) ==
    /\ CallComplete(p, u, n)
    /\ handler' = [handler EXCEPT ![p] = "button_callback"]
    /\ reply' = NoReply
    /\ generated' = << >>
    /\ UNCHANGED confirmations

\* button_callback after complete_habit_in_db has returned: on success the
\* habit is looked up again, its streak computed and a motivation generated;
\* nothing is sent if the loop does not find the habit
CompleteReply(p, ai) ==
    /\ handler[p] = "button_callback"
    /\ call[p].op = "complete"
    /\ Return(p)
    /\ LET u == call[p].user_id
           n == call[p].habit_name
           found == {h \in get_user_habits(u) : h.habit_name = n}
       IN  /\ reply' =
             IF success[p]
             THEN IF found = {} THEN NoReply
                  ELSE LET h  == CHOOSE x \in found : TRUE
                           ds == get_habit_completions(h.id)
                           k  == calculate_streak(ds)
                       IN  [Message("completed!", u)
                              EXCEPT !.habit_name = n, !.streak = k,
                                     !.total = Len(ds),
                                     !.text = generate_motivation(n, k, Len(ds), ai)]
             ELSE IF message[p] = "Already completed"
                  THEN [Message("You already completed", u) EXCEPT !.habit_name = n]
                  ELSE [Message(message[p], u) EXCEPT !.habit_name = n]
           /\ generated' = IF success[p] /\ found # {} THEN << ai >> ELSE << >>
    /\ handler' = [handler EXCEPT ![p] = "none"]
    /\ UNCHANGED confirmations

\* button_callback, "delete:<name>": the button of a /deletehabit keyboard
PressDelete(p, u, n) ==
    /\ CallDelete(p, u, n)
    /\ handler' = [handler EXCEPT ![p] = "button_callback"]
    /\ reply' = NoReply
    /\ generated' = << >>
    /\ UNCHANGED confirmations

\* button_callback after delete_habit_from_db has returned
DeleteReply(p) ==
    /\ handler[p] = "button_callback"
    /\ call[p].op = "delete"
    /\ Return(p)
    /\ reply' = [Message(IF deleted[p] THEN "deleted" ELSE "Habit not found!",
                         call[p].user_id)
                   EXCEPT !.habit_name = call[p].habit_name]
    /\ handler' = [handler EXCEPT ![p] = "none"]
    /\ UNCHANGED << confirmations, generated >>

\* Faulty variant: max_streak = streak
Latest(a, b) == b

\* max(a, b)
Max(a, b) == IF a >= b THEN a ELSE b

\* stats: the loop over the habits, adding up the counts and keeping the
\* longest streak
RECURSIVE StatsLoop(_, _, _)
StatsLoop(rows, total_completions, max_streak) ==
    IF rows = {}
    THEN [total_completions |-> total_completions, max_streak |-> max_streak]
    ELSE LET h  == CHOOSE x \in rows : TRUE
             ds == get_habit_completions(h.id)
         IN  StatsLoop(rows \ {h}, total_completions + Len(ds),
                       Max(max_streak, calculate_streak(ds)))

\* stats: /stats
Stats(p, u) ==
    /\ pc[p] = "idle"
    /\ LET hs == get_user_habits(u)
           sums == StatsLoop(hs, 0, 0)
       IN  reply' = IF hs = {}
                    THEN Message("You don't have any habits yet", u)
                    ELSE [Message("Your Statistics", u)
                            EXCEPT !.count = Cardinality(hs),
                                   !.total = sums.total_completions,
                                   !.streak = sums.max_streak,
                                   !.rows = {[habit_name |-> h.habit_name,
                                              streak |-> calculate_streak(
                                                  get_habit_completions(h.id)),
                                              total |-> Len(get_habit_completions(h.id))]
                                             : h \in hs}]
    /\ generated' = << >>
    /\ UNCHANGED << db, tx, lock, pc, call, locals, today, streakVars,
                    handler, confirmations >>

\* ask_ai: /ask <question>
AskAI(p, u, args, ai) ==
    /\ pc[p] = "idle"
    /\ reply' = IF args = << >>
                THEN Message("Ask me anything", u)
                ELSE [Message("answer", u)
                        EXCEPT !.text = ai_chat_assistant(Join(args),
                                                          get_user_habits(u), ai)]
    /\ generated' = IF args = << >> THEN << >> ELSE << ai >>
    /\ UNCHANGED << db, tx, lock, pc, call, locals, today, streakVars,
                    handler, confirmations >>

\* callback data of the two buttons of a confirmation keyboard
AddHabitPrefix == << 97, 100, 100, 95, 104, 97, 98, 105, 116, 58 >>
CancelAdd == << 99, 97, 110, 99, 101, 108, 95, 97, 100, 100 >>
\* the keyboard shown to user u for a name
Keyboard(u, habit_name) == [user_id |-> u, data |-> AddHabitPrefix \o habit_name]

\* habit_keywords
habit_keywords ==
    { << 119, 97, 110, 116, 32, 116, 111 >>,
      << 110, 101, 101, 100, 32, 116, 111 >>,
      << 115, 104, 111, 117, 108, 100 >>,
      << 104, 101, 108, 112, 32, 109, 101 >>,
      << 115, 116, 97, 114, 116 >>,
      << 98, 117, 105, 108, 100 >>,
      << 99, 114, 101, 97, 116, 101, 32, 104, 97, 98, 105, 116 >> }

\* messages the users write: with a keyword in capitals, with a keyword in
\* small letters, without a keyword
UserTexts == { << 66, 85, 73, 76, 68, 32, 105, 116 >>,
               << 73, 32, 115, 104, 111, 117, 108, 100 >>,
               << 87, 104, 121 >> }

\* Faulty variant: the extracted habit is added at once, without asking
HandleNaturalLanguageWithoutAsking(p, u, text, ai) ==
    /\ pc[p] = "idle"
    /\ LET habit_name == extract_habit_from_text(text, ai) IN
       /\ Truthy(habit_name)
       /\ CallAdd(p, u, habit_name[1])
    /\ handler' = [handler EXCEPT ![p] = "handle_natural_language"]
    /\ reply' = NoReply
    /\ generated' = << ai >>
    /\ UNCHANGED confirmations

\* handle_natural_language: a text that is no command
HandleNaturalLanguage(p, u, text, ai) ==
    /\ pc[p] = "idle"
    /\ IF \E keyword \in habit_keywords : Contains(Lower(text), keyword)
       THEN LET habit_name == extract_habit_from_text(text, ai) IN
            IF Truthy(habit_name)
            THEN /\ reply' = [Message("I think you want to add", u)
                                EXCEPT !.habit_name = habit_name[1]]
                 /\ confirmations' = confirmations \cup {Keyboard(u, habit_name[1])}
            ELSE /\ reply' = Message("I couldn't quite understand that", u)
                 /\ UNCHANGED confirmations
       ELSE /\ reply' = [Message("answer", u)
                           EXCEPT !.text = ai_chat_assistant(text, get_user_habits(u), ai)]
            /\ UNCHANGED confirmations
    /\ generated' = << ai >>
    /\ UNCHANGED << db, tx, lock, pc, call, locals, today, streakVars, handler >>

\* handle_habit_confirmation: a button of keyboard c is pressed
PressConfirmation(p, c, data) ==
    /\ pc[p] = "idle"
    /\ c \in confirmations
    /\ data \in {c.data, CancelAdd}
    /\ IF StartsWith(data, AddHabitPrefix)
       THEN /\ CallAdd(p, c.user_id, AfterColon(data))
            /\ handler' = [handler EXCEPT ![p] = "handle_habit_confirmation"]
            /\ reply' = NoReply
            /\ generated' = << >>
            /\ UNCHANGED confirmations
       ELSE /\ data = CancelAdd
            /\ reply' = Message("Cancelled. No habit was added.", c.user_id)
            /\ generated' = << >>
            /\ confirmations' = confirmations \ {c}
            /\ UNCHANGED << db, tx, lock, pc, call, locals, today, streakVars,
                            handler >>

\* handle_habit_confirmation after add_habit_to_db has returned: the message
\* with the keyboard is replaced by the answer
ConfirmationReply(p) ==
    /\ handler[p] = "handle_habit_confirmation"
    /\ Return(p)
    /\ reply' = [Message(IF success[p] THEN "has been added to your habits"
                                       ELSE "You already have a habit called",
                         call[p].user_id)
                   EXCEPT !.habit_name = call[p].habit_name]
    /\ confirmations' = confirmations \ {Keyboard(call[p].user_id, call[p].habit_name)}
    /\ handler' = [handler EXCEPT ![p] = "none"]
    /\ UNCHANGED generated

\* ------------------------------------------------------------------------
\* One habit over the days: the bot (one update at a time) adds a habit,
\* marks it complete when its button is pressed and lists it, while the days
\* go by
\* ------------------------------------------------------------------------
Bot == 1

NextDays ==
    \/ \E k \in Keys : seq.habits = 0 /\ AddHabitCommand(Bot, k[1], << k[2] >>)
    \/ AddInsert(Bot)
    \/ AddCommit(Bot)
    \/ AddHabitReply(Bot)
    \/ \E h \in habits : PressComplete(Bot, h.user_id, h.habit_name)
    \/ CompleteSelect(Bot)
    \/ CompleteInsert(Bot)
    \/ CompleteCommit(Bot)
    \/ CompleteClose(Bot)
    \/ \E ai \in AIOutcomes : CompleteReply(Bot, ai)
    \/ \E h \in habits : MyHabits(Bot, h.user_id)
    \/ Midnight(WindowDays - 1)

SpecDays == Init /\ [][NextDays]_vars

\* ------------------------------------------------------------------------
\* Statistics: the bot (one update at a time) adds, completes and deletes
\* habits and answers /stats in between
\* ------------------------------------------------------------------------
\* a handler has taken the next update and has not answered yet
Pending == reply' = NoReply /\ generated' = << >> /\ UNCHANGED << handler, confirmations >>

NextStats ==
    \/ \E k \in Keys : RowsLeft /\ CallAdd(Bot, k[1], k[2]) /\ Pending
    \/ AddInsert(Bot)
    \/ AddCommit(Bot)
    \/ AddClose(Bot)
    \/ \E k \in Keys : RowsLeft /\ CallComplete(Bot, k[1], k[2]) /\ Pending
    \/ CompleteSelect(Bot)
    \/ CompleteInsert(Bot)
    \/ CompleteCommit(Bot)
    \/ CompleteClose(Bot)
    \/ \E k \in Keys : CallDelete(Bot, k[1], k[2]) /\ Pending
    \/ DeleteExecute(Bot)
    \/ DeleteCommit(Bot)
    \/ Reply(Bot)
    \/ \E u \in Users : Stats(Bot, u)
    \/ Tick

SpecStats == Init /\ [][NextStats]_vars

\* ------------------------------------------------------------------------
\* Text generation at work: the store holds one habit completed on each of
\* the last days; its button is pressed, questions are asked and free text is
\* written, and every call of the text generator may fail
\* ------------------------------------------------------------------------
\* the store after one add and a completion on each of the n days before the
\* first day
InitLongRun ==
    /\ \E k \in Keys, n \in 0..MaxRun :
         /\ habits = {[id |-> 1, user_id |-> k[1], habit_name |-> k[2],
                       created_date |-> Strftime(MinusDays(FirstDay, n))]}
         /\ completions = {[id |-> i, habit_id |-> 1,
                            completion_date |-> Strftime(MinusDays(FirstDay, n + 1 - i))]
                           : i \in 1..n}
         /\ seq = [habits |-> 1, completions |-> n]
    /\ lock = 0
    /\ txHabits = habits
    /\ txCompletions = completions
    /\ txSeq = seq
    /\ pc = [p \in Procs |-> "idle"]
    /\ call = [p \in Procs |-> NoCall]
    /\ habit_id = [p \in Procs |-> 0]
    /\ success = [p \in Procs |-> FALSE]
    /\ message = [p \in Procs |-> ""]
    /\ deleted = [p \in Procs |-> FALSE]
    /\ today = FirstDay
    /\ dates = << >>
    /\ streak = -1
    /\ InitChat

NextAI ==
    \/ \E h \in habits : PressComplete(Bot, h.user_id, h.habit_name)
    \/ CompleteSelect(Bot)
    \/ CompleteInsert(Bot)
    \/ CompleteCommit(Bot)
    \/ CompleteClose(Bot)
    \/ \E ai \in AIOutcomes : CompleteReply(Bot, ai)
    \/ \E u \in Users, args \in ArgLists, ai \in AIOutcomes : AskAI(Bot, u, args, ai)
    \/ \E u \in Users, text \in UserTexts, ai \in AIOutcomes :
          /\ Cardinality(confirmations) < MaxKeyboards
          /\ HandleNaturalLanguage(Bot, u, text, ai)

SpecAI == InitLongRun /\ [][NextAI]_vars

\* ------------------------------------------------------------------------
\* Creating habits: the bot (one update at a time) gets /addhabit with and
\* without a name, free text, and presses of the two buttons of a
\* confirmation keyboard
\* ------------------------------------------------------------------------
NextAssistant ==
    \/ \E u \in Users, args \in ArgLists :
          /\ args = << >> \/ << u, Join(args) >> \in Keys
          /\ RowsLeft
          /\ AddHabitCommand(Bot, u, args)
    \/ AddInsert(Bot)
    \/ AddCommit(Bot)
    \/ AddClose(Bot)
    \/ AddHabitReply(Bot)
    \/ \E u \in Users, text \in UserTexts, ai \in AIOutcomes :
          /\ Cardinality(confirmations) < MaxKeyboards
          /\ HandleNaturalLanguage(Bot, u, text, ai)
    \/ \E c \in confirmations : \E data \in {c.data, CancelAdd} :
          /\ StartsWith(data, AddHabitPrefix) => RowsLeft
          /\ PressConfirmation(Bot, c, data)
    \/ ConfirmationReply(Bot)

SpecAssistant == Init /\ [][NextAssistant]_vars

\* ------------------------------------------------------------------------
\* Well-formedness of the store
\* ------------------------------------------------------------------------
TypeOK ==
    /\ lock \in 0..NumProcs
    /\ \A h \in habits : h.id \in 1..seq.habits
    /\ \A c \in completions : c.id \in 1..seq.completions
    /\ lock = 0 => tx = db

\* ------------------------------------------------------------------------
\* Properties of the store under two concurrent callers (Spec)
\* ------------------------------------------------------------------------
HasHabit(rows, u, n) == \E h \in rows : h.user_id = u /\ h.habit_name = n
HasCompletion(rows, hid, d) ==
    \E c \in rows : c.habit_id = hid /\ c.completion_date = d
HabitsOf(rows, u) == {h \in rows : h.user_id = u}

HabitsUnique(rows) ==
    \A a, b \in rows :
        (a.user_id = b.user_id /\ a.habit_name = b.habit_name) => a = b

CompletionsUnique(rows) ==
    \A a, b \in rows :
        (a.habit_id = b.habit_id /\ a.completion_date = b.completion_date) => a = b

\* C1: in every reachable state, committed or inside an open transaction, no
\* two habit rows have the same (user_id, habit_name).
OwnerNameUnique == HabitsUnique(habits) /\ HabitsUnique(txHabits)

\* An add has just been refused while two habits are stored.
OwnerNameUniqueWitness ==
    /\ Cardinality(habits) >= 2
    /\ \E p \in Procs : pc[p] = "add_close" /\ ~ success[p]

\* C2: in every reachable state, committed or inside an open transaction, no
\* two completion rows have the same (habit_id, completion_date).
HabitDateUnique == CompletionsUnique(completions) /\ CompletionsUnique(txCompletions)

\* A second completion of a habit on the same day has just been refused.
HabitDateUniqueWitness ==
    \E p \in Procs :
        /\ pc[p] = "comp_close"
        /\ HasCompletion(completions, habit_id[p], call[p].date)

\* C3: every stored completion refers to a habit that still exists, so the
\* completions of a deleted habit are gone with it.
CompletionsHaveHabit ==
    \A c \in completions : \E h \in habits : h.id = c.habit_id

\* C4: an add of an (owner, name) that already exists is refused (success is
\* False, by the ordinary return path) and no step of that call changes a row
\* of either table.
AddExistingIsRefused ==
    [][\A p \in Procs :
        /\ ( /\ pc[p] = "add_insert"
             /\ pc'[p] # "add_insert"
             /\ HasHabit(habits, call[p].user_id, call[p].habit_name) )
           => /\ pc'[p] = "add_close"
              /\ success'[p] = FALSE
              /\ UNCHANGED << habits, completions, txHabits, txCompletions >>
        /\ ( pc[p] = "add_close" /\ pc'[p] # "add_close" )
           => /\ pc'[p] = "ret"
              /\ success'[p] = FALSE
              /\ UNCHANGED << habits, completions >>
      ]_vars

\* A refused add has returned: the owner still has the one habit, which keeps
\* the completion recorded for it.
AddExistingWitness ==
    \E p \in Procs :
        /\ pc[p] = "ret" /\ call[p].op = "add" /\ ~ success[p]
        /\ Cardinality(HabitsOf(habits, call[p].user_id)) = 1
        /\ \E h \in habits :
              /\ h.user_id = call[p].user_id /\ h.habit_name = call[p].habit_name
              /\ \E c \in completions : c.habit_id = h.id

\* C5: a completion of a habit that already has one for that date is refused
\* with (False, "Already completed") and no step of that call changes a row of
\* either table.
CompleteTwiceIsRefused ==
    [][\A p \in Procs :
        /\ ( /\ pc[p] = "comp_insert"
             /\ pc'[p] # "comp_insert"
             /\ HasCompletion(completions, habit_id[p], call[p].date) )
           => /\ pc'[p] = "comp_close"
              /\ success'[p] = FALSE
              /\ message'[p] = "Already completed"
              /\ UNCHANGED << habits, completions, txHabits, txCompletions >>
        /\ ( pc[p] = "comp_close" /\ pc'[p] # "comp_close" )
           => /\ pc'[p] = "ret"
              /\ success'[p] = FALSE
              /\ message'[p] = "Already completed"
              /\ UNCHANGED << habits, completions >>
      ]_vars

\* A refused completion has returned and the habit has its one completion for
\* that date.
CompleteTwiceWitness ==
    \E p \in Procs :
        /\ pc[p] = "ret" /\ message[p] = "Already completed" /\ ~ success[p]
        /\ Cardinality({c \in completions : c.habit_id = habit_id[p]
                                           /\ c.completion_date = call[p].date}) = 1

\* C6: completing a habit the owner does not have returns (False, "Habit not
\* found") and writes nothing; a delete removes only rows of that (owner,
\* name), returns True exactly when it removed one, and changes nothing when
\* the owner has no such habit.
MissingHabitFailsCleanly ==
    [][\A p \in Procs :
        /\ ( /\ pc[p] = "comp_select"
             /\ pc'[p] # "comp_select"
             /\ ~ HasHabit(habits, call[p].user_id, call[p].habit_name) )
           => /\ pc'[p] = "ret"
              /\ success'[p] = FALSE
              /\ message'[p] = "Habit not found"
              /\ UNCHANGED << db, tx, lock >>
        /\ ( pc[p] = "del_delete" /\ pc'[p] # "del_delete" )
           => LET removed == txHabits \ txHabits' IN
              /\ txHabits' \subseteq txHabits
              /\ txCompletions' \subseteq txCompletions
              /\ \A h \in removed : /\ h.user_id = call[p].user_id
                                    /\ h.habit_name = call[p].habit_name
              /\ deleted'[p] = (removed # {})
              /\ ~ HasHabit(habits, call[p].user_id, call[p].habit_name)
                   => /\ deleted'[p] = FALSE
                      /\ UNCHANGED << txHabits, txCompletions >>
              /\ UNCHANGED db
        /\ ( pc[p] = "del_commit" /\ pc'[p] # "del_commit" )
           => /\ pc'[p] = "ret"
              /\ deleted'[p] = deleted[p]
              /\ habits' = txHabits
              /\ completions' = txCompletions
              /\ ~ deleted[p] => UNCHANGED << habits, completions >>
      ]_vars

\* Both failures have returned while another owner keeps a habit of the same
\* name.
MissingHabitWitness ==
    \E p, q \in Procs :
        /\ pc[p] = "ret" /\ message[p] = "Habit not found" /\ ~ success[p]
        /\ pc[q] = "ret" /\ call[q].op = "delete" /\ ~ deleted[q]
        /\ \E h \in habits : /\ h.habit_name = call[p].habit_name
                             /\ h.user_id # call[p].user_id
        /\ \E h \in habits : /\ h.habit_name = call[q].habit_name
                             /\ h.user_id # call[q].user_id

\* ------------------------------------------------------------------------
\* Properties of calculate_streak (SpecStreak)
\* ------------------------------------------------------------------------
DistinctOf(ds) == {ds[i] : i \in 1..Len(ds)}
IsDistinct(ds) == Cardinality(DistinctOf(ds)) = Len(ds)
\* every list that holds each member of S once
Orderings(S) ==
    {o \in [1..Cardinality(S) -> S] : {o[i] : i \in 1..Cardinality(S)} = S}

\* the day numbers of the dates of a list
DayNumbers(ds) == {ToOrdinal(Strptime(x)) : x \in DistinctOf(ds)}

\* length of the unbroken run of consecutive day numbers in N that ends at e
RECURSIVE RunEndingAt(_, _)
RunEndingAt(N, e) == IF e \notin N THEN 0 ELSE 1 + RunEndingAt(N, e - 1)

\* the streak a set of dates stands for: the run ending today, else the run
\* ending yesterday, else 0
ExpectedStreak(ds) ==
    LET N == DayNumbers(ds)
        t == ToOrdinal(today)
    IN  IF t \in N THEN RunEndingAt(N, t)
        ELSE IF (t - 1) \in N THEN RunEndingAt(N, t - 1)
        ELSE 0

NoneAfterToday(ds) == \A n \in DayNumbers(ds) : n <= ToOrdinal(today)

\* the text of the day k days before today
DaysAgo(k) == Strftime(MinusDays(today, k))

\* C7: the streak of a list equals the streak of its distinct dates taken in
\* any order: a repeated date or another order never changes the result.
StreakIgnoresRepeatsAndOrder ==
    streak # -1 =>
        \A o \in Orderings(DistinctOf(dates)) : calculate_streak(o) = streak

\* C8 as stated: for every list of distinct dates the streak is the run ending
\* today, else the run ending yesterday, else 0.
StreakIsRunOfAnyDistinctDates ==
    (streak # -1 /\ IsDistinct(dates)) => streak = ExpectedStreak(dates)

\* C8 amended: for every list of distinct dates none of which is after today,
\* the streak is the run ending today, else the run ending yesterday, else 0;
\* with the listed cases {} -> 0, {today} -> 1, {today-1} -> 1, {today-2} -> 0,
\* {today .. today-3} -> 4 and {today, today-2} -> 1.
StreakIsRunOfPastDates ==
    (streak # -1 /\ IsDistinct(dates)) =>
        /\ NoneAfterToday(dates) => streak = ExpectedStreak(dates)
        /\ dates = << >> => streak = 0
        /\ DistinctOf(dates) = {DaysAgo(0)} => streak = 1
        /\ DistinctOf(dates) = {DaysAgo(1)} => streak = 1
        /\ DistinctOf(dates) = {DaysAgo(2)} => streak = 0
        /\ DistinctOf(dates) = {DaysAgo(0), DaysAgo(1), DaysAgo(2), DaysAgo(3)}
             => streak = 4
        /\ DistinctOf(dates) = {DaysAgo(0), DaysAgo(2)} => streak = 1

\* Four consecutive days ending today, handed over out of order, counted as 4.
StreakIsRunWitness ==
    /\ streak = 4
    /\ IsDistinct(dates)
    /\ DistinctOf(dates) = {DaysAgo(0), DaysAgo(1), DaysAgo(2), DaysAgo(3)}
    /\ dates[1] # DaysAgo(0)

\* ------------------------------------------------------------------------
\* Properties of the races (SpecAddRace, SpecCompleteRace)
\* ------------------------------------------------------------------------
Returned == {p \in Procs : pc[p] = "ret"}
Winners == {p \in Returned : success[p]}
\* refused callers: the refusal is decided at *_close and returned at ret
Refused == {p \in Procs : pc[p] \in {"add_close", "comp_close", "ret"} /\ ~ success[p]}

\* C9: of the callers adding the same new (owner, name) at most one gets
\* True, a caller is refused only once another has got True, the key never has
\* two rows, and when all have returned exactly one has True, all others have
\* False and the table holds exactly one row.
AddRaceHasOneWinner ==
    /\ Cardinality(Winners) <= 1
    /\ Refused # {} => Winners # {}
    /\ \A p \in Procs : pc[p] \in {"idle", "add_insert", "add_commit", "add_close", "ret"}
    /\ HabitsUnique(habits)
    /\ Returned = Procs =>
         /\ Cardinality(Winners) = 1
         /\ \A p \in Procs \ Winners : success[p] = FALSE
         /\ Cardinality(habits) = 1

\* All racing adds have returned.
AddRaceWitness ==
    /\ Returned = Procs
    /\ \A p, q \in Procs : call[p] = call[q] /\ call[p].op = "add"

\* C10: of the callers completing the same habit for the same date at most
\* one gets (True, "Completed"), a caller is refused only once another has
\* succeeded and then with "Already completed", and when all have returned
\* exactly one has succeeded and the table holds exactly one row for that
\* (habit, date).
CompleteRaceHasOneWinner ==
    /\ Cardinality(Winners) <= 1
    /\ Refused # {} => Winners # {}
    /\ \A p \in Winners : message[p] = "Completed"
    /\ \A p \in Refused : message[p] = "Already completed"
    /\ \A p \in Procs : pc[p] \in {"idle", "comp_select", "comp_insert",
                                    "comp_commit", "comp_close", "ret"}
    /\ CompletionsUnique(completions)
    /\ Returned = Procs =>
         /\ Cardinality(Winners) = 1
         /\ \A p \in Procs \ Winners : ~ success[p] /\ message[p] = "Already completed"
         /\ Cardinality(completions) = 1

\* All racing completions have returned.
CompleteRaceWitness ==
    /\ Returned = Procs
    /\ \A p, q \in Procs : call[p] = call[q] /\ call[p].op = "complete"

\* ------------------------------------------------------------------------
\* Properties of a completion racing a delete (SpecCompleteDeleteRace)
\* ------------------------------------------------------------------------
\* C11: when a completion and a delete of the same habit run together, no
\* completion is written for the habit once its row is deleted (the insert
\* is only ever about to commit while the habit row is stored), a completion
\* that finds the habit gone returns (False, "Habit not found"), and once the
\* habit is deleted no completion row of it remains.
CompleteDeleteRaceIsClean ==
    /\ \A p \in Procs :
          pc[p] = "comp_commit" => \E h \in habits : h.id = habit_id[p]
    /\ \A p \in Procs :
          (pc[p] = "ret" /\ call[p].op = "complete" /\ ~ success[p]
             /\ ~ HasCompletion(completions, habit_id[p], call[p].date))
            => message[p] = "Habit not found"
    /\ habits = {} => completions = {}
\* ------------------------------------------------------------------------
\* Properties of one habit over the days (SpecDays)
\* ------------------------------------------------------------------------
\* the day numbers on which habit h has a stored completion
CompletedDays(h) ==
    {ToOrdinal(Strptime(c.completion_date)) : c \in {x \in completions : x.habit_id = h.id}}

\* the block of habit h in the /myhabits message just sent, if it is one
ListedToday(h) ==
    IF reply.kind = "Your Habits" /\ reply.day = Strftime(today)
                                  /\ reply.user_id = h.user_id
    THEN {r \in reply.rows : r.habit_name = h.habit_name}
    ELSE {}

\* C12: a habit completed on k consecutive days and listed on the last of
\* them shows streak k and total k (2 and 2 after the first two days); once
\* at least two days were skipped and it is completed again, the listing of
\* that day shows streak 1 and total k + 1 (1 and 3 on the fifth day after
\* the first two).
ListingShowsRunAndTotal ==
    \A h \in habits : \A r \in ListedToday(h) :
        LET N == CompletedDays(h)
            t == ToOrdinal(today)
            f == ToOrdinal(FirstDay)
        IN  /\ \A k \in 1..WindowDays :
                  N = (t - k + 1)..t => r.streak = k /\ r.total = k
            /\ \A k \in 1..WindowDays : \A e \in f..(t - 3) :
                  N = ((e - k + 1)..e) \cup {t} => r.streak = 1 /\ r.total = k + 1
            /\ (N = {f, f + 1} /\ t = f + 1) => r.streak = 2 /\ r.total = 2
            /\ (N = {f, f + 1, f + 4} /\ t = f + 4) => r.streak = 1 /\ r.total = 3

\* Listed on the fifth day: completed on days 1, 2 and 5.
ListingShowsRunWitness ==
    \E h \in habits : \E r \in ListedToday(h) :
        /\ CompletedDays(h) = {ToOrdinal(FirstDay), ToOrdinal(FirstDay) + 1,
                               ToOrdinal(FirstDay) + 4}
        /\ ToOrdinal(today) = ToOrdinal(FirstDay) + 4
        /\ r.streak = 1 /\ r.total = 3

\* C17: with no completion after day d, the latest day on which the habit
\* was completed, the listing shows on day d + 1 the streak it shows on day
\* d (the run of completed days ending on d), and 0 from day d + 2 on.
StreakLastsOneMoreDay ==
    \A h \in habits : \A r \in ListedToday(h) :
        CompletedDays(h) # {} =>
            LET N == CompletedDays(h)
                d == CHOOSE n \in N : \A m \in N : m <= n
                t == ToOrdinal(today)
            IN  /\ t = d => r.streak = RunEndingAt(N, d)
                /\ t = d + 1 => r.streak = RunEndingAt(N, d)
                /\ t >= d + 2 => r.streak = 0

\* Listed on the day after the second of two completed days: streak 2 still.
StreakLastsWitness ==
    \E h \in habits : \E r \in ListedToday(h) :
        /\ r.streak = 2 /\ r.total = 2 /\ ~ r.completed_today
        /\ ToOrdinal(today) - 1 \in CompletedDays(h)

\* Listed two days after the latest of two completed days: streak 0.
StreakLapsedWitness ==
    \E h \in habits : \E r \in ListedToday(h) :
        /\ r.streak = 0 /\ r.total = 2
        /\ CompletedDays(h) = {ToOrdinal(today) - 3, ToOrdinal(today) - 2}
\* ------------------------------------------------------------------------
\* Properties of /stats (SpecStats)
\* ------------------------------------------------------------------------
\* C13: the statistics sent for an owner give the number of the owner's
\* habits, the number of completions stored for those habits, and the largest
\* of their current streaks (0 if all are 0), for the store as it is when the
\* query is answered; an owner without habits is told so.
StatsReportsTheStore ==
    reply.day = Strftime(today) =>
        LET hs == HabitsOf(habits, reply.user_id)
            shown == {calculate_streak(get_habit_completions(h.id)) : h \in hs}
        IN  /\ reply.kind = "Your Statistics" =>
                /\ hs # {}
                /\ reply.count = Cardinality(hs)
                /\ reply.total = Cardinality({c \in completions :
                                                \E h \in hs : h.id = c.habit_id})
                /\ reply.streak \in shown
                /\ \A k \in shown : k <= reply.streak
                /\ shown = {0} => reply.streak = 0
            /\ reply.kind = "You don't have any habits yet" => hs = {}

\* Statistics of an owner with two habits, one of them completed once.
StatsWitness ==
    /\ reply.kind = "Your Statistics" /\ reply.day = Strftime(today)
    /\ reply.count = 2 /\ reply.total = 1 /\ reply.streak = 1
\* ------------------------------------------------------------------------
\* Properties of the text generation (SpecAI)
\* ------------------------------------------------------------------------
\* C14: each handler calls the text generator once and, when the call fails,
\* answers with the fixed fallback: the motivation after a completion is the
\* canned message of its streak (7 or more, 3 to 6, less than 3) and the
\* completion stays recorded, a question gets the apology, and free text
\* whose extraction failed gets the guidance instead of a keyboard.
GenerationFailureFallsBack ==
    /\ reply.kind = "completed!" =>
         /\ Len(generated) = 1
         /\ \E h \in habits :
               /\ h.user_id = reply.user_id /\ h.habit_name = reply.habit_name
               /\ HasCompletion(completions, h.id, reply.day)
         /\ generated[1].raises =>
               /\ reply.streak >= 7 =>
                    reply.text = [source |-> "Incredible!", streak |-> reply.streak,
                                  body |-> << >>]
               /\ reply.streak \in 3..6 =>
                    reply.text = [source |-> "Amazing work!", streak |-> reply.streak,
                                  body |-> << >>]
               /\ reply.streak < 3 =>
                    reply.text = [source |-> "Great job!", streak |-> 0, body |-> << >>]
    /\ reply.kind = "answer" =>
         /\ Len(generated) = 1
         /\ generated[1].raises =>
               reply.text = [source |-> "I'm having trouble", streak |-> 0,
                             body |-> << >>]
    /\ reply.kind \in {"I think you want to add", "I couldn't quite understand that"} =>
         /\ Len(generated) = 1
         /\ generated[1].raises => reply.kind = "I couldn't quite understand that"
    /\ reply.kind \notin {"completed!", "answer", "I think you want to add",
                          "I couldn't quite understand that"} => generated = << >>

\* The eighth day in a row was completed and the generator failed.
GenerationFailureWitness ==
    /\ reply.kind = "completed!" /\ reply.streak = 8 /\ reply.total = 8
    /\ generated[1].raises
    /\ reply.text.source = "Incredible!"
\* ------------------------------------------------------------------------
\* Properties of creating habits (SpecAssistant)
\* ------------------------------------------------------------------------
Guidance == {"Please specify a habit name", "I couldn't quite understand that"}

\* C15: a step in which the bot answers /addhabit without a name, or free
\* text from which no name was extracted, with its guidance changes no row
\* and starts no call, and no habit, committed or in an open transaction,
\* ever has the empty name.
MalformedInputChangesNothing ==
    [][/\ (reply'.kind \in Guidance /\ reply' # reply)
            => UNCHANGED << db, tx, lock, pc, call, confirmations >>
       /\ \A h \in habits' \cup txHabits' : h.habit_name # << >>
      ]_vars

\* The generator answered with nothing but two quotes: guidance, and the
\* habit stored before is still the only one.
MalformedInputWitness ==
    /\ reply.kind = "I couldn't quite understand that"
    /\ generated = << [raises |-> FALSE, text |-> << DoubleQuote, DoubleQuote >>] >>
    /\ Cardinality(habits) = 1
    /\ confirmations = {}

\* C18: a habit row appears only when an add commits that /addhabit or the
\* confirm button started; the confirm button starts one only for a keyboard
\* that is shown; the step that shows a keyboard and the step that cancels
\* one change no row and start no call.
HabitsComeFromAddOrConfirm ==
    [][/\ ~ (habits' \subseteq habits) =>
             \E p \in Procs :
                /\ pc[p] = "add_commit" /\ pc'[p] = "ret"
                /\ handler[p] \in {"add_habit", "handle_habit_confirmation"}
       /\ \A p \in Procs :
             (pc[p] = "idle" /\ pc'[p] = "add_insert") =>
                \/ handler'[p] = "add_habit"
                \/ /\ handler'[p] = "handle_habit_confirmation"
                   /\ Keyboard(call'[p].user_id, call'[p].habit_name) \in confirmations
       /\ ~ (confirmations' \subseteq confirmations) =>
             UNCHANGED << db, tx, lock, pc, call >>
       /\ (reply'.kind = "Cancelled. No habit was added." /\ reply' # reply) =>
             UNCHANGED << db, tx, lock, pc, call >>
      ]_vars

\* A habit was added by the confirm button.
ConfirmedAddWitness ==
    /\ reply.kind = "has been added to your habits"
    /\ HasHabit(habits, reply.user_id, reply.habit_name)
    /\ confirmations = {}

\* A keyboard was cancelled and the owner has no habit.
CancelledAddWitness ==
    /\ reply.kind = "Cancelled. No habit was added."
    /\ HabitsOf(habits, reply.user_id) = {}
\* ------------------------------------------------------------------------
\* Further properties of the store under two concurrent callers (Spec)
\* ------------------------------------------------------------------------
\* the completions stored for habit id hid
CompletionsOf(rows, hid) == {c \in rows : c.habit_id = hid}

\* the caller taking the step, if it runs add_habit_to_db or
\* complete_habit_in_db
AddsOrCompletes(p) ==
    /\ pc'[p] # pc[p]
    /\ {call[p].op, call'[p].op} \cap {"add", "complete"} # {}

\* C16: no step of an add or a complete removes or changes a stored
\* completion; a completion leaves the table only in a step that removes its
\* habit; and the number of completions of a habit that stays never goes
\* down.
CompletionsAreAppendOnly ==
    [][/\ \A p \in Procs : AddsOrCompletes(p) => completions \subseteq completions'
       /\ \A c \in completions \ completions' :
             \E h \in habits \ habits' : h.id = c.habit_id
       /\ \A h \in habits \cap habits' :
             Cardinality(CompletionsOf(completions', h.id))
               >= Cardinality(CompletionsOf(completions, h.id))
      ]_vars

\* A habit has two completions, a third call on it was refused, and another
\* habit was added since.
AppendOnlyWitness ==
    \E h \in habits :
        /\ Cardinality(CompletionsOf(completions, h.id)) = 2
        /\ \E p \in Procs : pc[p] = "ret" /\ call[p].op = "add" /\ ~ success[p]

\* what get_user_habits gives for owner u, and the streaks and totals
\* /myhabits and /stats compute for u, on tables hrows and crows
ReportOf(hrows, crows, u) ==
    {[habit |-> h,
      streak |-> calculate_streak(OrderByDateDesc(CompletionsOf(crows, h.id))),
      total |-> Len(OrderByDateDesc(CompletionsOf(crows, h.id)))]
     : h \in HabitsOf(hrows, u)}

\* the owner on whose behalf caller p takes a step
OwnerOfStep(p) ==
    IF call[p].op = "none" THEN call'[p].user_id ELSE call[p].user_id

\* C19: a step of an add, complete or delete made for one owner leaves every
\* other owner's habit rows, the completions of those habits, and what
\* get_user_habits and the listing of streaks and totals give for that other
\* owner unchanged, also when both use the same habit name.
OwnersAreIsolated ==
    [][\A p \in Procs :
         pc'[p] # pc[p] =>
            \A b \in Users \ {OwnerOfStep(p)} :
               /\ HabitsOf(habits', b) = HabitsOf(habits, b)
               /\ HabitsOf(txHabits', b) = HabitsOf(txHabits, b)
               /\ \A h \in HabitsOf(habits, b) :
                     CompletionsOf(completions', h.id) = CompletionsOf(completions, h.id)
               /\ \/ UNCHANGED << habits, completions >>
                  \/ ReportOf(habits', completions', b) = ReportOf(habits, completions, b)
      ]_vars

\* Two owners have a habit of the same name; one has completed it and then
\* deleted it, the other's is untouched.
OwnersIsolatedWitness ==
    \E p \in Procs : \E h \in habits :
        /\ pc[p] = "ret" /\ call[p].op = "delete" /\ deleted[p]
        /\ h.habit_name = call[p].habit_name /\ h.user_id # call[p].user_id
        /\ completions # {}
        /\ CompletionsOf(completions, h.id) = {}

\* the ids table habits ever handed out, committed
UsedIds == 1 .. seq.habits

\* C20: the habit row an add commits has an id that no habit ever had, also
\* when a habit of the same owner and name was deleted before: it is not in
\* UsedIds, no stored completion carries it, get_habit_completions is empty
\* and streak and total are 0 for it; a habit gets completions only by the
\* commit of a complete that resolved its id for its owner and name. Ids in
\* use stay within UsedIds, which never shrinks.
ReaddedHabitStartsEmpty ==
    [][/\ \A h \in habits : h.id \in UsedIds
       /\ \A c \in completions : c.habit_id \in UsedIds
       /\ seq'.habits >= seq.habits
       /\ \A h \in habits' \ habits :
             /\ h.id \notin UsedIds
             /\ \A o \in habits : o.id # h.id
             /\ CompletionsOf(completions', h.id) = {}
             /\ OrderByDateDesc(CompletionsOf(completions', h.id)) = << >>
             /\ calculate_streak(OrderByDateDesc(CompletionsOf(completions', h.id))) = 0
       /\ \A h \in habits \cap habits' :
             CompletionsOf(completions', h.id) # CompletionsOf(completions, h.id) =>
                \E p \in Procs :
                   /\ pc[p] = "comp_commit" /\ pc'[p] = "ret"
                   /\ habit_id[p] = h.id
                   /\ call[p].user_id = h.user_id
                   /\ call[p].habit_name = h.habit_name
      ]_vars

\* A habit was completed and deleted, its completion is still stored, and the
\* add of the same owner and name has just committed a habit without
\* completions.
ReaddedHabitWitness ==
    \E p, q \in Procs : \E h \in habits :
        /\ pc[q] = "ret" /\ call[q].op = "delete" /\ deleted[q]
        /\ pc[p] = "ret" /\ call[p].op = "add" /\ success[p]
        /\ call[p].user_id = call[q].user_id
        /\ call[p].habit_name = call[q].habit_name
        /\ h.user_id = call[p].user_id /\ h.habit_name = call[p].habit_name
        /\ \E c \in completions : c.habit_id < h.id /\ c.habit_id \notin {o.id : o \in habits}
        /\ CompletionsOf(completions, h.id) = {}
        /\ get_habit_completions(h.id) = << >>

\* the dates get_habit_completions gave for habit hid before the completion
\* of date d was inserted
DatesBefore(hid, d) ==
    OrderByDateDesc({c \in CompletionsOf(completions, hid) : c.completion_date # d})

\* the step in which button_callback answers a complete button whose
\* completion was recorded, on the day of the press
AnswersCompletion(p) ==
    /\ handler[p] = "button_callback" /\ handler'[p] = "none"
    /\ call[p].op = "complete" /\ success[p]
    /\ call[p].date = Strftime(today)

\* C21: when the complete button succeeds, the streak in the answer is the
\* streak of the dates stored before the insert, computed on the same day,
\* plus 1 (so at least 1), and the total in the answer is the number of
\* those dates plus 1; every stored date is at most today.
CompletionAddsOne ==
    [][\A p \in Procs : \A h \in habits :
          (/\ AnswersCompletion(p)
           /\ h.user_id = call[p].user_id /\ h.habit_name = call[p].habit_name) =>
             /\ \A c \in completions :
                   ToOrdinal(Strptime(c.completion_date)) <= ToOrdinal(today)
             /\ reply'.kind = "completed!"
             /\ reply'.streak = calculate_streak(DatesBefore(h.id, call[p].date)) + 1
             /\ reply'.streak >= 1
             /\ reply'.total = Len(DatesBefore(h.id, call[p].date)) + 1
      ]_vars

\* The habit was completed on the first day and, after a day without, on two
\* days in a row: the answer to the last press says streak 2 and total 3.
CompletionAddsOneWitness ==
    \E h \in habits :
        /\ reply.kind = "completed!" /\ reply.day = Strftime(today)
        /\ reply.user_id = h.user_id /\ reply.habit_name = h.habit_name
        /\ CompletedDays(h) = {ToOrdinal(FirstDay), ToOrdinal(FirstDay) + 2,
                               ToOrdinal(FirstDay) + 3}
        /\ ToOrdinal(today) = ToOrdinal(FirstDay) + 3
        /\ reply.streak = 2 /\ reply.total = 3
====
